---- MODULE Spec2Model ----
(***************************************************************************)
(* redis-rate: a GCRA rate limiter whose state lives in Redis              *)
(* (src/src/scripts.rs, ALLOW_N_SCRIPT) with an optional process-local     *)
(* cache of "blocked until" instants (src/src/lib.rs, RESET_TIME_STORE)    *)
(* that is evicted by a pub/sub listener (Limiter::start_event_sync).      *)
(*                                                                         *)
(* Time is counted in ticks of 1/TicksPerSec second.  The Redis clock and  *)
(* every process's monotonic clock advance together (variable now).        *)
(* Arithmetic on seconds is exact on the tick grid; the rounding error of  *)
(* IEEE doubles is not modelled.                                           *)
(***************************************************************************)
EXTENDS Integers, Sequences, FiniteSets, TLC

(* ------------------------------ bounds -------------------------------- *)
NProcs == 2
NThreads == 3
MaxTime == 2
MaxCalls == 3
MaxResets == 1
MaxCost == 2
MaxBurst == 4
BurstCalls == 3
SeqCalls == 4
SeqMaxCost == 5
EvictCalls == 4
ListenCalls == 2
LifeCalls == 3
MaxQueue == 1
PrefixCalls == 3
CapCalls == 4
CapTime == 4
LifeTime == 5

(* Resolution of the clock: ticks per second (Redis TIME has microseconds, *)
(* Instant has nanoseconds; two ticks per second are enough to make the    *)
(* fractional seconds of the script's results visible).                    *)
TicksPerSec == 2

Procs == 1..NProcs
Threads == 1..NThreads
ProcOf(t) == ((t - 1) % NProcs) + 1
\* the id under which a listener thread holds the cache lock
ListenerId == 0

(* --------------------------- configuration ---------------------------- *)
DEFAULT_LIMITER_KEY_PREFIX == "redis_rate:"
DEFAULT_LIMITER_EVENT_CHANNEL == "redis_rate_channel"
LIMITER_RESET_EVENT_PREFIX == "reset:"

\* Limit::new: the constructor panics unless the three conditions hold
LimitValid(rate, burst, period_seconds) ==
    /\ period_seconds /= 0
    /\ rate /= 0
    /\ ~(rate > burst)

NewLimit(rate, burst, period_seconds) ==
    [rate |-> rate, burst |-> burst, period_seconds |-> period_seconds]

\* Limiter::new
NewLimiter ==
    [key_prefix |-> DEFAULT_LIMITER_KEY_PREFIX,
     event_channel |-> DEFAULT_LIMITER_EVENT_CHANNEL]

\* the limits, limiters, keys and costs the callers of the model use
Limits == {NewLimit(2, 3, 1), NewLimit(2, 1, 1)}
Limiters == {NewLimiter}
KeyNames == {"k"}

\* lines 104-108: set_key_prefix replaces the prefix of a limiter
set_key_prefix(limiter, prefix) == [limiter EXCEPT !.key_prefix = prefix]
\* two limiters of one process with different prefixes, and the keys their
\* callers pass
Prefixes == {"a", "ab"}
PrefixedLimiters == {set_key_prefix(NewLimiter, x) : x \in Prefixes}
PrefixedKeys == {"c", "bc"}
Costs == 1..MaxCost

\* format!("{}{}", self.key_prefix, key)
FormatKey(limiter, key) == limiter.key_prefix \o key

(* --------------------- arithmetic of allow_n -------------------------- *)
\* limit.period_seconds as f64 / limit.rate as f64, in ticks
EmissionInterval(limit) == (limit.period_seconds * TicksPerSec) \div limit.rate
\* an increment that charges one permit whatever n is
TatIncrementPerCall(limit, n) == EmissionInterval(limit)
\* emission_interval * n as f64
TatIncrement(limit, n) == EmissionInterval(limit) * n
\* limit.burst as f64 * emission_interval
BurstOffset(limit) == limit.burst * EmissionInterval(limit)

Max(a, b) == IF a >= b THEN a ELSE b

\* math.floor(x / y) for y > 0
FloorDiv(x, y) == x \div y
\* a time to live rounded down to whole seconds
FloorSecs(x) == x \div TicksPerSec

\* math.ceil of a number of ticks, in whole seconds
CeilSecs(x) == (x + TicksPerSec - 1) \div TicksPerSec

(* ----------------------------- hash maps ------------------------------ *)
Has(m, k) == k \in DOMAIN m
Put(m, k, v) == [x \in (DOMAIN m) \cup {k} |-> IF x = k THEN v ELSE m[x]]
Del(m, k) == [x \in (DOMAIN m) \ {k} |-> m[x]]
EmptyMap == [x \in {} |-> 0]

(* ------------------------ the store: Redis ---------------------------- *)
\* redis.call("GET", key): a key whose expiry time has come is gone
StoreGet(st, key, t) == IF Has(st, key) /\ st[key].exp > t THEN <<st[key].tat>> ELSE <<>>

\* lines 28-33: tat = GET key, or now when the key is absent
ScriptTat(st, key, t) ==
    LET got == StoreGet(st, key, t) IN IF got = <<>> THEN t ELSE got[1]

\* line 34
ScriptNewTat(tat, t, tat_increment) == Max(tat, t) + tat_increment

\* a script that also rejects the request that exactly fills the burst
ScriptLimitedAtEdge(allow_at, t) == allow_at >= t

\* line 42: if allow_at > now
ScriptLimited(allow_at, t) == allow_at > t

\* line 44
ScriptRemainingLimited(tat, t, burst_offset, emission_interval) ==
    FloorDiv((t - tat) + burst_offset, emission_interval)

\* line 49
ScriptRemainingAllowed(allow_at, t, emission_interval) ==
    FloorDiv(t - allow_at, emission_interval)

\* a script whose allowed branch returns 0 for retry_after
ScriptZeroRetry == TicksPerSec - TicksPerSec

\* line 50: retry_after = -1 (seconds)
ScriptNoRetry == 0 - TicksPerSec

\* line 52: SET key new_tat EX ceil(reset_after); the value is written with
\* 17 significant digits and read back by tonumber, which loses nothing
ScriptSet(st, key, new_tat, t) ==
    Put(st, key, [tat |-> new_tat, exp |-> t + CeilSecs(new_tat - t) * TicksPerSec])

\* a limited branch that stores new_tat all the same
ScriptStoreLimitedWriting(st, key, new_tat, t) == ScriptSet(st, key, new_tat, t)

\* what the limited branch (lines 43-46) leaves in the store
ScriptStoreLimited(st, key, new_tat, t) == st

\* ALLOW_N_SCRIPT, executed atomically by Redis at Redis time t.  ret holds
\* the four Lua numbers of line 55, times in ticks.
AllowNScript(st, key, emission_interval, burst_offset, tat_increment, t) ==
    LET tat == ScriptTat(st, key, t)
        new_tat == ScriptNewTat(tat, t, tat_increment)
        allow_at == new_tat - burst_offset
    IN  IF ScriptLimited(allow_at, t)
        THEN [store |-> ScriptStoreLimited(st, key, new_tat, t),
              ret |-> [limited |-> TRUE,
                       remaining |-> ScriptRemainingLimited(tat, t, burst_offset,
                                                            emission_interval),
                       retry_after |-> allow_at - t,
                       reset_after |-> tat - t]]
        ELSE [store |-> ScriptSet(st, key, new_tat, t),
              ret |-> [limited |-> FALSE,
                       remaining |-> ScriptRemainingAllowed(allow_at, t,
                                                            emission_interval),
                       retry_after |-> ScriptNoRetry,
                       reset_after |-> new_tat - t]]

\* A Lua number in a script's reply becomes a Redis integer: the fraction
\* is cut off, toward zero.  x is a time in ticks, the result whole seconds.
LuaSecsToInt(x) ==
    IF x >= 0 THEN x \div TicksPerSec ELSE 0 - ((0 - x) \div TicksPerSec)

\* line 55: return {limited, remaining, retry_after, reset_after} as the
\* reply Redis sends (false becomes nil, numbers become integers)
ScriptReply(ret) ==
    [limited |-> ret.limited,
     remaining |-> ret.remaining,
     retry_after |-> LuaSecsToInt(ret.retry_after),
     reset_after |-> LuaSecsToInt(ret.reset_after)]

(* ------------------------- results of a call -------------------------- *)
None == [some |-> FALSE, d |-> 0]
Some(d) == [some |-> TRUE, d |-> d]

\* the largest value of the model's integers stands for a usize that has
\* wrapped around (a negative i64 cast with `as usize`)
UsizeWrapped == 2147483647
\* redis::from_redis_value for usize: Value::Int(val) => val as usize
AsUsizeFromInt(v) == IF v >= 0 THEN v ELSE UsizeWrapped
\* `x as usize` for a float x: saturates at 0
AsUsizeFromFloat(v) == IF v >= 0 THEN v ELSE 0

\* lines 202-206
DecodeRetryAfter(retry_after_secs) ==
    IF retry_after_secs < 0 THEN None ELSE Some(retry_after_secs * TicksPerSec)

\* lines 200-207 and 214-219: the LimitResult built from the reply
DecodeResult(reply) ==
    [limited |-> reply.limited,
     remaining |-> AsUsizeFromInt(reply.remaining),
     retry_after |-> DecodeRetryAfter(reply.retry_after),
     reset_after |-> reply.reset_after * TicksPerSec]

\* a duration that does not saturate: the distance between the two instants
DurationBetween(reset_time, t) ==
    IF reset_time >= t THEN reset_time - t ELSE t - reset_time

\* reset_time.duration_since(now): saturates at zero
DurationSince(reset_time, t) == Max(reset_time - t, 0)

\* line 178
LocalDiff(reset_after, tat_increment, burst_offset) ==
    (reset_after + tat_increment) - burst_offset

\* a cache path that also denies when diff is zero
LocalDeniesAtZero(diff) == diff >= 0

\* line 179
LocalDenies(diff) == diff > 0

\* a cache path that answers the call with limited = false
LocalResultAllowing(reset_after, diff, burst_offset, emission_interval) ==
    [limited |-> FALSE,
     remaining |-> AsUsizeFromFloat(FloorDiv(burst_offset - reset_after,
                                             emission_interval)),
     retry_after |-> None,
     reset_after |-> reset_after]

\* lines 180-186
LocalResult(reset_after, diff, burst_offset, emission_interval) ==
    [limited |-> TRUE,
     remaining |-> AsUsizeFromFloat(FloorDiv(burst_offset - reset_after,
                                             emission_interval)),
     retry_after |-> Some(IF diff >= 0 THEN diff ELSE 0 - diff),
     reset_after |-> reset_after]

NoResult == [limited |-> FALSE, remaining |-> 0, retry_after |-> None, reset_after |-> 0]
NoReply == [limited |-> FALSE, remaining |-> 0, retry_after |-> 0, reset_after |-> 0]

(* ------------------------------- state -------------------------------- *)
VARIABLES
    now,      \* the clock, in ticks
    accel,    \* the build has the feature local_accelerate
    store,    \* Redis: effective key -> [tat, exp]
    cache,    \* per process, RESET_TIME_STORE: effective key -> Instant
    lock,     \* per process, the RwLock around the map: who holds it
    th,       \* per thread, the call it is in
    ret,      \* what the last step returned to a caller, if it returned
    lst,      \* per process, the thread that runs start_event_sync
    chan,     \* per process, the messages its subscription has yet to read
    budget,   \* calls and resets made so far (bounds the model)
    scn,      \* the Limit the callers of a scenario share
    hist      \* history of the run, for the properties

vars == <<now, accel, store, cache, lock, th, ret, lst, chan, budget, scn, hist>>

StoreKeys ==
    {FormatKey(l, k) : l \in Limiters, k \in KeyNames}
        \cup {FormatKey(l, k) : l \in PrefixedLimiters, k \in PrefixedKeys}

FreeLock == [readers |-> {}, writer |-> {}]
\* RwLock::try_read succeeds unless a writer holds the lock
CanRead(l) == l.writer = {}
\* RwLock::try_write succeeds only when nobody holds the lock
CanWrite(l) == l.writer = {} /\ l.readers = {}

IdleThread ==
    [pc |-> "idle", limiter |-> NewLimiter, key |-> "",
     limit |-> NewLimit(1, 1, 1), n |-> 0, now |-> 0, reply |-> NoReply,
     ran |-> 0, ep |-> 0, first |-> FALSE, evicted |-> FALSE, g |-> 0,
     fault |-> "none"]

\* No step has returned.  op, kind, via and r are what the caller sees: the
\* operation, Ok / Err / a panic, and the LimitResult; the other fields
\* record, for the properties, what happened during the call.
NoRet ==
    [op |-> "none", kind |-> "none", via |-> "none", r |-> NoResult,
     t |-> 0, key |-> "", limit |-> NewLimit(1, 1, 1), n |-> 0,
     ran |-> 0, script |-> NoReply, would |-> NoReply, wouldNow |-> NoReply,
     fresh |-> FALSE, deniedOnly |-> FALSE,
     first |-> FALSE, evicted |-> FALSE, g |-> 0, fault |-> "none"]

\* the return of the call that thread t, with thread record c, is in
Return(t, c, op, kind, via, r) ==
    [NoRet EXCEPT !.op = op, !.kind = kind, !.via = via, !.r = r,
                  !.fault = c.fault,
                  !.t = t, !.key = c.key, !.limit = c.limit, !.n = c.n,
                  !.ran = c.ran, !.script = c.reply,
                  !.first = c.first, !.evicted = c.evicted, !.g = c.g]

NoHist ==
    [dels |-> [k \in StoreKeys |-> 0],
     clean |-> [k \in StoreKeys |-> FALSE],
     fresh |-> [k \in StoreKeys |-> FALSE],
     granted |-> [k \in StoreKeys |-> 0],
     allowed |-> 0,
     limited |-> 0,
     log |-> FALSE,
     grants |-> [k \in StoreKeys |-> <<>>],
     cacheEp |-> [p \in Procs |-> EmptyMap],
     deniedOnly |-> [p \in Procs |-> EmptyMap],
     stage |-> [p \in Procs |-> [k \in StoreKeys |-> "none"]]]

\* the history after a LimitResult r has been returned
Counted(h, r) ==
    IF r.limited THEN [h EXCEPT !.limited = @ + 1]
    ELSE [h EXCEPT !.allowed = @ + 1]

Init ==
    /\ now = 0
    /\ accel \in BOOLEAN
    /\ store = EmptyMap
    /\ cache = [p \in Procs |-> EmptyMap]
    /\ lock = [p \in Procs |-> FreeLock]
    /\ th = [t \in Threads |-> IdleThread]
    /\ ret = NoRet
    /\ lst = [p \in Procs |-> [pc |-> "off", channel |-> "", payload |-> ""]]
    /\ chan = [p \in Procs |-> <<>>]
    /\ budget = [calls |-> 0, resets |-> 0]
    /\ scn = NewLimit(1, 1, 1)
    /\ hist = NoHist

(* ------------------------------ allow_n ------------------------------- *)
\* true when some thread other than t is inside allow_n for key
OthersInFlight(t, key) ==
    \E u \in Threads \ {t} : th[u].pc \notin {"idle", "publish"} /\ th[u].key = key

\* lines 160-175: the key and the three durations are computed, the clock
\* is read and the cache's read lock is tried
AllowStart(t, limiter, name, limit, n) ==
    LET p == ProcOf(t)
        key == FormatKey(limiter, name)
        locked == accel /\ CanRead(lock[p])
        tagFirst == hist.fresh[key] /\ hist.clean[key] /\ ~OthersInFlight(t, key)
        tagEvicted == hist.stage[p][key] = "handled"
    IN  /\ th[t].pc = "idle"
        /\ budget' = [budget EXCEPT !.calls = @ + 1]
        /\ th' = [th EXCEPT ![t] =
                    [IdleThread EXCEPT
                        !.pc = IF locked THEN "lookup" ELSE "connect",
                        !.limiter = limiter, !.key = key, !.limit = limit,
                        !.n = n, !.now = IF accel THEN now ELSE 0,
                        !.first = tagFirst, !.evicted = tagEvicted]]
        /\ lock' = IF locked
                   THEN [lock EXCEPT ![p].readers = @ \cup {t}]
                   ELSE lock
        /\ hist' = [hist EXCEPT !.fresh[key] = FALSE,
                                !.stage[p][key] =
                                    IF tagEvicted THEN "none" ELSE @]
        /\ ret' = NoRet
        /\ UNCHANGED <<now, accel, store, cache, lst, chan, scn>>

\* lines 176-189, under the read lock: a cached instant that makes diff
\* positive answers the call; the lock is released on both paths
CacheLookup(t) ==
    LET p == ProcOf(t)
        c == th[t]
        hit == Has(cache[p], c.key)
        reset_after == DurationSince(cache[p][c.key], c.now)
        diff == LocalDiff(reset_after, TatIncrement(c.limit, c.n),
                          BurstOffset(c.limit))
        denied == hit /\ LocalDenies(diff)
        r == LocalResult(reset_after, diff, BurstOffset(c.limit),
                         EmissionInterval(c.limit))
        would == AllowNScript(store, c.key, EmissionInterval(c.limit),
                              BurstOffset(c.limit),
                              TatIncrement(c.limit, c.n), c.now)
        wouldNow == AllowNScript(store, c.key, EmissionInterval(c.limit),
                                 BurstOffset(c.limit),
                                 TatIncrement(c.limit, c.n), now)
    IN  /\ c.pc = "lookup"
        /\ lock' = [lock EXCEPT ![p].readers = @ \ {t}]
        /\ th' = [th EXCEPT ![t] =
                    IF denied THEN IdleThread ELSE [c EXCEPT !.pc = "connect"]]
        /\ ret' = IF denied
                  THEN [Return(t, [c EXCEPT !.g = hist.granted[c.key],
                                            !.first = @ /\ hist.clean[c.key]],
                               "allow_n", "ok", "local", r)
                          EXCEPT !.would = ScriptReply(would.ret),
                                 !.wouldNow = ScriptReply(wouldNow.ret),
                                 !.fresh = hist.cacheEp[p][c.key] = hist.dels[c.key],
                                 !.deniedOnly = hist.deniedOnly[p][c.key]]
                  ELSE NoRet
        /\ hist' = IF denied THEN Counted(hist, r) ELSE hist
        /\ UNCHANGED <<now, accel, store, cache, lst, chan, budget, scn>>

\* how a command sent to Redis can end: it succeeds; the connection cannot
\* be had; the command fails before it runs; it runs and the reply is lost
Outcomes == {"ok", "conn_err", "cmd_err", "reply_lost"}
Executed(outcome) == outcome \in {"ok", "reply_lost"}

\* lines 191-198: get_connection and the script's invocation.  Redis runs
\* the script as one step.
Invoke(t, outcome) ==
    LET c == th[t]
        out == AllowNScript(store, c.key, EmissionInterval(c.limit),
                            BurstOffset(c.limit),
                            TatIncrement(c.limit, c.n), now)
        ran == [c EXCEPT !.ran = @ + 1, !.reply = ScriptReply(out.ret),
                         !.fault = outcome,
                         !.ep = hist.dels[c.key],
                         !.g = hist.granted[c.key],
                         !.first = @ /\ hist.clean[c.key]]
    IN  /\ c.pc = "connect"
        /\ store' = IF Executed(outcome) THEN out.store ELSE store
        /\ th' = [th EXCEPT ![t] =
                    IF outcome = "ok" THEN [ran EXCEPT !.pc = "reply"]
                    ELSE IdleThread]
        /\ ret' = IF outcome = "ok" THEN NoRet
                  ELSE Return(t, IF Executed(outcome) THEN ran
                                 ELSE [c EXCEPT !.fault = outcome],
                              "allow_n", "err", "store", NoResult)
        /\ hist' = IF Executed(outcome)
                   THEN [hist EXCEPT
                            !.clean[c.key] = FALSE,
                            !.granted[c.key] =
                                IF out.ret.limited THEN @ ELSE @ + c.n,
                            !.grants[c.key] =
                                IF hist.log /\ ~out.ret.limited
                                THEN Append(@, [at |-> now, n |-> c.n])
                                ELSE @]
                   ELSE hist
        /\ UNCHANGED <<now, accel, cache, lock, lst, chan, budget, scn>>

\* a write() that waits until the lock is free
WriteWaits(l) == CanWrite(l)

\* line 210: try_write returns at once, whatever the state of the lock
TryWriteReturns(l) == TRUE

\* how the decoding of a reply can end
Decodings == {"ok", "decode_err"}
\* a decoding whose error is dropped
DecodeNeverFails(decoding) == FALSE

\* line 201: redis::from_redis_value(&result)?
DecodeFails(decoding) == decoding /= "ok"

\* lines 200-212 and, when the write lock is not free, 214-219: the reply
\* is decoded and the cache's write lock is tried
Receive(t, decoding) ==
    LET p == ProcOf(t)
        c == [th[t] EXCEPT !.fault = decoding]
        r == DecodeResult(c.reply)
        failed == DecodeFails(decoding)
        panics == ~failed /\ c.reply.reset_after < 0
        locked == ~failed /\ ~panics /\ accel /\ CanWrite(lock[p])
    IN  /\ c.pc = "reply"
        /\ TryWriteReturns(lock[p])
        /\ th' = [th EXCEPT ![t] =
                    IF locked THEN [c EXCEPT !.pc = "insert"] ELSE IdleThread]
        /\ ret' = IF failed THEN Return(t, c, "allow_n", "err", "store", NoResult)
                  ELSE IF panics
                  THEN Return(t, c, "allow_n", "panic", "store", NoResult)
                  ELSE IF locked THEN NoRet
                  ELSE Return(t, c, "allow_n", "ok", "store", r)
        /\ lock' = IF locked THEN [lock EXCEPT ![p].writer = {t}] ELSE lock
        /\ hist' = IF failed \/ panics \/ locked THEN hist ELSE Counted(hist, r)
        /\ UNCHANGED <<now, accel, store, cache, lst, chan, budget, scn>>

\* the Instant line 211 stores: now + reset_after
CacheInstant(t0, reset_after) == t0 + reset_after

\* lines 211-219, under the write lock
CacheInsert(t) ==
    LET p == ProcOf(t)
        c == th[t]
        r == DecodeResult(c.reply)
    IN  /\ c.pc = "insert"
        /\ cache' = [cache EXCEPT ![p] =
                        Put(@, c.key, CacheInstant(c.now, r.reset_after))]
        /\ lock' = [lock EXCEPT ![p].writer = {}]
        /\ th' = [th EXCEPT ![t] = IdleThread]
        /\ ret' = Return(t, c, "allow_n", "ok", "store", r)
        /\ hist' = [Counted(hist, r) EXCEPT
                        !.cacheEp[p] = Put(@, c.key, c.ep),
                        !.deniedOnly[p] =
                            Put(@, c.key,
                                /\ c.reply.limited
                                /\ Has(cache[p], c.key) => @[c.key]),
                        !.stage[p][c.key] =
                            IF @ \in {"none", "limited"}
                            THEN (IF c.reply.limited THEN "limited" ELSE "none")
                            ELSE @]
        /\ UNCHANGED <<now, accel, store, lst, chan, budget, scn>>

(* ------------------------------- reset -------------------------------- *)
\* a reset that leaves the key in the store
StoreDelNothing(st, key) == st

\* line 140: DEL key
StoreDel(st, key) == Del(st, key)

\* a reset whose failing command goes unreported
ResetNeverFails(outcome) == FALSE

\* lines 139, 140 and 148: the ? after get_connection and after each query
ResetFails(outcome) == outcome /= "ok"

\* lines 138-140: get_connection and DEL key; without local_accelerate the
\* call returns here
ResetDel(t, limiter, name, outcome) ==
    LET key == FormatKey(limiter, name)
        c == [IdleThread EXCEPT !.limiter = limiter, !.key = key,
                                !.fault = outcome]
        more == accel /\ outcome = "ok"
    IN  /\ th[t].pc = "idle"
        /\ budget' = [calls |-> budget.calls + 1, resets |-> budget.resets + 1]
        /\ store' = IF Executed(outcome) THEN StoreDel(store, key) ELSE store
        /\ th' = [th EXCEPT ![t] =
                    IF more THEN [c EXCEPT !.pc = "publish"] ELSE IdleThread]
        /\ ret' = IF more THEN NoRet
                  ELSE Return(t, c, "reset",
                              IF ResetFails(outcome) THEN "err" ELSE "ok",
                              "del", NoResult)
        /\ hist' = IF Executed(outcome)
                   THEN [hist EXCEPT
                            !.dels[key] = @ + 1,
                            !.clean[key] = TRUE,
                            !.granted[key] = 0,
                            !.grants[key] = <<>>,
                            !.fresh[key] = outcome = "ok" /\ ~accel]
                   ELSE hist
        /\ UNCHANGED <<now, accel, cache, lock, lst, chan, scn>>

\* line 144
ResetNotify(key) == LIMITER_RESET_EVENT_PREFIX \o key

\* PUBLISH channel message: every subscription of the channel gets it
Publish(ch, channel, message) ==
    [p \in Procs |->
        IF lst[p].pc /= "off" /\ lst[p].channel = channel
        THEN Append(ch[p], message)
        ELSE ch[p]]

\* lines 144-151: PUBLISH event_channel "reset:<key>" on the connection the
\* DEL used
ResetPublish(t, outcome) ==
    LET c == [th[t] EXCEPT !.fault = outcome]
        ok == outcome = "ok"
    IN  /\ c.pc = "publish"
        /\ outcome /= "conn_err"
        /\ chan' = IF Executed(outcome)
                   THEN Publish(chan, c.limiter.event_channel, ResetNotify(c.key))
                   ELSE chan
        /\ th' = [th EXCEPT ![t] = IdleThread]
        /\ ret' = Return(t, c, "reset",
                         IF ResetFails(outcome) THEN "err" ELSE "ok",
                         "publish", NoResult)
        /\ hist' = IF ok
                   THEN [hist EXCEPT
                            !.fresh[c.key] = hist.clean[c.key],
                            !.stage = [p \in Procs |->
                                [k \in StoreKeys |->
                                    IF k = c.key /\ hist.stage[p][k] = "limited"
                                    THEN "reset"
                                    ELSE hist.stage[p][k]]]]
                   ELSE hist
        /\ UNCHANGED <<now, accel, store, cache, lock, lst, budget, scn>>

(* ------------------------- start_event_sync --------------------------- *)
\* lines 122-124: a connection is taken and the channel subscribed
ListenerStart(p, limiter) ==
    /\ accel
    /\ lst[p].pc = "off"
    /\ lst' = [lst EXCEPT ![p] = [pc |-> "listening",
                                  channel |-> limiter.event_channel,
                                  payload |-> ""]]
    /\ chan' = [chan EXCEPT ![p] = <<>>]
    /\ ret' = NoRet
    /\ UNCHANGED <<now, accel, store, cache, lock, th, budget, scn, hist>>

\* the ways the listener's set-up can fail: no connection (line 122), the
\* SUBSCRIBE command (line 124)
StartFailures == {"conn_err", "sub_err"}

\* how start_event_sync ends on a failure f: line 122 returns the error
\* with ?, line 124 unwraps it, lines 126 return it with ?
ListenerExit(f) == IF f = "sub_err" THEN "panic" ELSE "err"

\* what the caller of start_event_sync sees when it ends
ListenerReturn(p, f) ==
    [NoRet EXCEPT !.op = "start_event_sync", !.kind = ListenerExit(f),
                  !.via = "listener", !.fault = f, !.t = ListenerId]

\* lines 122-124 failing: nothing has been subscribed
ListenerStartFails(p, limiter, f) ==
    /\ accel
    /\ lst[p].pc = "off"
    /\ ret' = ListenerReturn(p, f)
    /\ UNCHANGED <<now, accel, store, cache, lock, th, lst, chan, budget, scn, hist>>

\* line 126 failing: get_message or get_payload returns an error; the
\* connection is dropped and the subscription with it
ListenerRecvFails(p) ==
    /\ lst[p].pc = "listening"
    /\ lst' = [lst EXCEPT ![p] = [pc |-> "off", channel |-> "", payload |-> ""]]
    /\ chan' = [chan EXCEPT ![p] = <<>>]
    /\ ret' = ListenerReturn(p, "recv_err")
    /\ UNCHANGED <<now, accel, store, cache, lock, th, budget, scn, hist>>

\* what other clients of the store publish on the channel: the reset of a
\* key by another instance, the reset of a key this process never used, and
\* a message of another kind
ChannelMessages ==
    {ResetNotify(FormatKey(NewLimiter, k)) : k \in KeyNames}
        \cup {ResetNotify("other"), "ping"}

\* a message arrives on the channel the listener of p has subscribed
ChannelPublish(p, message) ==
    /\ lst[p].pc /= "off"
    /\ chan' = [chan EXCEPT ![p] = Append(@, message)]
    /\ ret' = NoRet
    /\ UNCHANGED <<now, accel, store, cache, lock, th, lst, budget, scn, hist>>

\* msg.starts_with(prefix)
StartsWith(msg, prefix) ==
    Len(msg) >= Len(prefix) /\ SubSeq(msg, 1, Len(prefix)) = prefix
\* msg.split_at(mid).1
SplitAtSecond(msg, mid) == SubSeq(msg, mid + 1, Len(msg))

\* the history of a key's cached decision once the listener is done with a
\* message that names the key
StageHandled(stage, removed) ==
    IF stage = "reset" THEN "handled"
    ELSE IF stage = "limited" /\ removed THEN "none"
    ELSE stage

\* lines 126-129: one message is taken; for a reset message the write lock
\* is tried, and the message is dropped when the lock is not free
ListenerRecv(p) ==
    LET msg == Head(chan[p])
        isReset == StartsWith(msg, LIMITER_RESET_EVENT_PREFIX)
        payload == SplitAtSecond(msg, Len(LIMITER_RESET_EVENT_PREFIX))
        locked == isReset /\ CanWrite(lock[p])
    IN  /\ lst[p].pc = "listening"
        /\ chan[p] /= <<>>
        /\ chan' = [chan EXCEPT ![p] = Tail(@)]
        /\ lst' = IF locked
                  THEN [lst EXCEPT ![p].pc = "evict", ![p].payload = payload]
                  ELSE lst
        /\ lock' = IF locked
                   THEN [lock EXCEPT ![p].writer = {ListenerId}]
                   ELSE lock
        /\ hist' = IF isReset /\ ~locked /\ payload \in StoreKeys
                   THEN [hist EXCEPT !.stage[p][payload] = StageHandled(@, FALSE)]
                   ELSE hist
        /\ ret' = NoRet
        /\ UNCHANGED <<now, accel, store, cache, th, budget, scn>>

\* lines 130-131: store.remove(payload), and the lock is released
ListenerEvict(p) ==
    LET payload == lst[p].payload
    IN  /\ lst[p].pc = "evict"
        /\ cache' = [cache EXCEPT ![p] = Del(@, payload)]
        /\ lock' = [lock EXCEPT ![p].writer = {}]
        /\ lst' = [lst EXCEPT ![p].pc = "listening", ![p].payload = ""]
        /\ hist' = [hist EXCEPT
                        !.cacheEp[p] = Del(@, payload),
                        !.deniedOnly[p] = Del(@, payload),
                        !.stage[p] =
                            [k \in StoreKeys |->
                                IF k = payload
                                THEN StageHandled(hist.stage[p][k], TRUE)
                                ELSE hist.stage[p][k]]]
        /\ ret' = NoRet
        /\ UNCHANGED <<now, accel, store, th, chan, budget, scn>>

(* -------------------------------- time -------------------------------- *)
Tick ==
    /\ now' = now + 1
    /\ ret' = NoRet
    /\ UNCHANGED <<accel, store, cache, lock, th, lst, chan, budget, scn, hist>>

(* ------------------------- the specifications ------------------------- *)
\* the threads of the first process; they share one cache and one listener
Callers == {t \in Threads : ProcOf(t) = 1}
CallerProcs == {ProcOf(t) : t \in Callers}

\* the bounds of the model: calls, resets and time
MayCall == budget.calls < MaxCalls
MayReset == budget.calls < MaxCalls /\ budget.resets < MaxResets
MayTick == now < MaxTime

\* Two threads of one process and the process's listener, with resets,
\* failing commands and passing time.
Next ==
    \/ \E t \in Callers, l \in Limiters, k \in KeyNames, lim \in Limits, n \in Costs :
            MayCall /\ AllowStart(t, l, k, lim, n)
    \/ \E t \in Callers : CacheLookup(t)
    \/ \E t \in Callers, o \in Outcomes : Invoke(t, o)
    \/ \E t \in Callers, d \in Decodings : Receive(t, d)
    \/ \E t \in Callers : CacheInsert(t)
    \/ \E t \in Callers, l \in Limiters, k \in KeyNames, o \in Outcomes :
            MayReset /\ ResetDel(t, l, k, o)
    \/ \E t \in Callers, o \in Outcomes : ResetPublish(t, o)
    \/ \E p \in CallerProcs, l \in Limiters : ListenerStart(p, l)
    \/ \E p \in CallerProcs : ListenerRecv(p)
    \/ \E p \in CallerProcs : ListenerEvict(p)
    \/ MayTick /\ Tick

Spec == Init /\ [][Next]_vars

\* N calls allow_n(key, limit, 1) with one Limit, from the threads of all
\* processes, on a key nobody has used; no command fails, no time passes.
BurstLimits == {NewLimit(1, 1, 1)} \cup {NewLimit(2, b, 1) : b \in 2..MaxBurst}

InitBurst ==
    /\ now = 0
    /\ accel \in BOOLEAN
    /\ store = EmptyMap
    /\ cache = [p \in Procs |-> EmptyMap]
    /\ lock = [p \in Procs |-> FreeLock]
    /\ th = [t \in Threads |-> IdleThread]
    /\ ret = NoRet
    /\ lst = [p \in Procs |-> [pc |-> "off", channel |-> "", payload |-> ""]]
    /\ chan = [p \in Procs |-> <<>>]
    /\ budget = [calls |-> 0, resets |-> 0]
    /\ scn \in BurstLimits
    /\ hist = NoHist

NextBurst ==
    \/ \E t \in Threads, l \in Limiters, k \in KeyNames :
            budget.calls < BurstCalls /\ AllowStart(t, l, k, scn, 1)
    \/ \E t \in Threads : CacheLookup(t)
    \/ \E t \in Threads : Invoke(t, "ok")
    \/ \E t \in Threads : Receive(t, "ok")
    \/ \E t \in Threads : CacheInsert(t)

SpecBurst == InitBurst /\ [][NextBurst]_vars

\* One thread calls allow_n again and again with one Limit, on a key nobody
\* has used; no command fails, no time passes.
SeqLimits == {NewLimit(5, 5, 20), NewLimit(2, 3, 1)}
SeqCosts == 1..SeqMaxCost

InitSeq ==
    /\ now = 0
    /\ accel \in BOOLEAN
    /\ store = EmptyMap
    /\ cache = [p \in Procs |-> EmptyMap]
    /\ lock = [p \in Procs |-> FreeLock]
    /\ th = [t \in Threads |-> IdleThread]
    /\ ret = NoRet
    /\ lst = [p \in Procs |-> [pc |-> "off", channel |-> "", payload |-> ""]]
    /\ chan = [p \in Procs |-> <<>>]
    /\ budget = [calls |-> 0, resets |-> 0]
    /\ scn \in SeqLimits
    /\ hist = NoHist

NextSeq ==
    \/ \E l \in Limiters, k \in KeyNames, n \in SeqCosts :
            budget.calls < SeqCalls /\ AllowStart(1, l, k, scn, n)
    \/ CacheLookup(1)
    \/ Invoke(1, "ok")
    \/ Receive(1, "ok")
    \/ CacheInsert(1)

SpecSeq == InitSeq /\ [][NextSeq]_vars

\* Local acceleration with the listener subscribed from the start: the
\* threads of one process call allow_n and reset; no command fails, no time
\* passes.
InitEvict ==
    /\ now = 0
    /\ accel = TRUE
    /\ store = EmptyMap
    /\ cache = [p \in Procs |-> EmptyMap]
    /\ lock = [p \in Procs |-> FreeLock]
    /\ th = [t \in Threads |-> IdleThread]
    /\ ret = NoRet
    /\ lst = [p \in Procs |->
                IF p \in CallerProcs
                THEN [pc |-> "listening",
                      channel |-> DEFAULT_LIMITER_EVENT_CHANNEL, payload |-> ""]
                ELSE [pc |-> "off", channel |-> "", payload |-> ""]]
    /\ chan = [p \in Procs |-> <<>>]
    /\ budget = [calls |-> 0, resets |-> 0]
    /\ scn = NewLimit(1, 1, 1)
    /\ hist = NoHist

NextEvict ==
    \/ \E t \in Callers, l \in Limiters, k \in KeyNames, lim \in Limits, n \in Costs :
            budget.calls < EvictCalls /\ AllowStart(t, l, k, lim, n)
    \/ \E t \in Callers : CacheLookup(t)
    \/ \E t \in Callers : Invoke(t, "ok")
    \/ \E t \in Callers : Receive(t, "ok")
    \/ \E t \in Callers : CacheInsert(t)
    \/ \E t \in Callers, l \in Limiters, k \in KeyNames :
            /\ budget.calls < EvictCalls /\ budget.resets < MaxResets
            /\ ResetDel(t, l, k, "ok")
    \/ \E t \in Callers : ResetPublish(t, "ok")
    \/ \E p \in CallerProcs : ListenerRecv(p)
    \/ \E p \in CallerProcs : ListenerEvict(p)

SpecEvict == InitEvict /\ [][NextEvict]_vars

\* The listener of one process being started, failing and being started
\* again, while the threads of the process call allow_n and reset.
InitListen ==
    /\ now = 0
    /\ accel = TRUE
    /\ store = EmptyMap
    /\ cache = [p \in Procs |-> EmptyMap]
    /\ lock = [p \in Procs |-> FreeLock]
    /\ th = [t \in Threads |-> IdleThread]
    /\ ret = NoRet
    /\ lst = [p \in Procs |-> [pc |-> "off", channel |-> "", payload |-> ""]]
    /\ chan = [p \in Procs |-> <<>>]
    /\ budget = [calls |-> 0, resets |-> 0]
    /\ scn = NewLimit(1, 1, 1)
    /\ hist = NoHist

NextListen ==
    \/ \E t \in Callers, l \in Limiters, k \in KeyNames, lim \in Limits, n \in Costs :
            budget.calls < ListenCalls /\ AllowStart(t, l, k, lim, n)
    \/ \E t \in Callers : CacheLookup(t)
    \/ \E t \in Callers : Invoke(t, "ok")
    \/ \E t \in Callers : Receive(t, "ok")
    \/ \E t \in Callers : CacheInsert(t)
    \/ \E t \in Callers, l \in Limiters, k \in KeyNames :
            /\ budget.calls < ListenCalls /\ budget.resets < MaxResets
            /\ ResetDel(t, l, k, "ok")
    \/ \E t \in Callers : ResetPublish(t, "ok")
    \/ \E p \in CallerProcs, l \in Limiters : ListenerStart(p, l)
    \/ \E p \in CallerProcs, l \in Limiters, f \in StartFailures :
            ListenerStartFails(p, l, f)
    \/ \E p \in CallerProcs : ListenerRecv(p)
    \/ \E p \in CallerProcs : ListenerRecvFails(p)
    \/ \E p \in CallerProcs, m \in ChannelMessages :
            Len(chan[p]) < MaxQueue /\ ChannelPublish(p, m)
    \/ \E p \in CallerProcs : ListenerEvict(p)

SpecListen == InitListen /\ [][NextListen]_vars

\* One thread of a build without the cache calls allow_n and reset while
\* time passes long enough for keys to expire.
InitLife ==
    /\ now = 0
    /\ accel = FALSE
    /\ store = EmptyMap
    /\ cache = [p \in Procs |-> EmptyMap]
    /\ lock = [p \in Procs |-> FreeLock]
    /\ th = [t \in Threads |-> IdleThread]
    /\ ret = NoRet
    /\ lst = [p \in Procs |-> [pc |-> "off", channel |-> "", payload |-> ""]]
    /\ chan = [p \in Procs |-> <<>>]
    /\ budget = [calls |-> 0, resets |-> 0]
    /\ scn = NewLimit(1, 1, 1)
    /\ hist = NoHist

NextLife ==
    \/ \E l \in Limiters, k \in KeyNames, lim \in Limits, n \in Costs :
            budget.calls < LifeCalls /\ AllowStart(1, l, k, lim, n)
    \/ Invoke(1, "ok")
    \/ Receive(1, "ok")
    \/ \E l \in Limiters, k \in KeyNames :
            /\ budget.calls < LifeCalls /\ budget.resets < MaxResets
            /\ ResetDel(1, l, k, "ok")
    \/ now < LifeTime /\ Tick

SpecLife == InitLife /\ [][NextLife]_vars

\* One thread of every process uses the key, all with the one Limit scn;
\* the history logs each grant of the script with its time.
CapLimits == {NewLimit(2, 3, 1), NewLimit(1, 2, 1)}
CapCallers == {t \in Threads : \A u \in Threads : ProcOf(u) = ProcOf(t) => t <= u}
InitCap ==
    /\ now = 0
    /\ accel = FALSE
    /\ store = EmptyMap
    /\ cache = [p \in Procs |-> EmptyMap]
    /\ lock = [p \in Procs |-> FreeLock]
    /\ th = [t \in Threads |-> IdleThread]
    /\ ret = NoRet
    /\ lst = [p \in Procs |-> [pc |-> "off", channel |-> "", payload |-> ""]]
    /\ chan = [p \in Procs |-> <<>>]
    /\ budget = [calls |-> 0, resets |-> 0]
    /\ scn \in CapLimits
    /\ hist = [NoHist EXCEPT !.log = TRUE]

NextCap ==
    \/ \E t \in CapCallers, l \in Limiters, k \in KeyNames, n \in Costs :
            budget.calls < CapCalls /\ AllowStart(t, l, k, scn, n)
    \/ \E t \in CapCallers : Invoke(t, "ok")
    \/ \E t \in CapCallers : Receive(t, "ok")
    \/ \E t \in CapCallers, l \in Limiters, k \in KeyNames :
            /\ budget.calls < CapCalls /\ budget.resets < MaxResets
            /\ ResetDel(t, l, k, "ok")
    \/ now < CapTime /\ Tick

SpecCap == InitCap /\ [][NextCap]_vars

\* Two limiters with different prefixes in one process: they share the
\* store and RESET_TIME_STORE.
InitPrefix ==
    /\ now = 0
    /\ accel = TRUE
    /\ store = EmptyMap
    /\ cache = [p \in Procs |-> EmptyMap]
    /\ lock = [p \in Procs |-> FreeLock]
    /\ th = [t \in Threads |-> IdleThread]
    /\ ret = NoRet
    /\ lst = [p \in Procs |-> [pc |-> "off", channel |-> "", payload |-> ""]]
    /\ chan = [p \in Procs |-> <<>>]
    /\ budget = [calls |-> 0, resets |-> 0]
    /\ scn = NewLimit(1, 1, 1)
    /\ hist = NoHist

NextPrefix ==
    \/ \E t \in Callers, l \in PrefixedLimiters, k \in PrefixedKeys, n \in Costs :
            /\ budget.calls < PrefixCalls
            /\ AllowStart(t, l, k, NewLimit(2, 3, 1), n)
    \/ \E t \in Callers : CacheLookup(t)
    \/ \E t \in Callers : Invoke(t, "ok")
    \/ \E t \in Callers : Receive(t, "ok")
    \/ \E t \in Callers : CacheInsert(t)
    \/ \E t \in Callers, l \in PrefixedLimiters, k \in PrefixedKeys :
            /\ budget.calls < PrefixCalls /\ budget.resets < MaxResets
            /\ ResetDel(t, l, k, "ok")
    \/ \E t \in Callers : ResetPublish(t, "ok")

SpecPrefix == InitPrefix /\ [][NextPrefix]_vars

(* ----------------------------- properties ------------------------------ *)
Min(a, b) == IF a <= b THEN a ELSE b
AllIdle == \A t \in Threads : th[t].pc = "idle"
\* the last step returned a LimitResult from allow_n
Answered == ret.op = "allow_n" /\ ret.kind = "ok"

\* C1: BurstCalls concurrent calls allow_n(key, limit, 1) on a key nobody has
\* used, with a Limit of burst B: once all have returned, exactly
\* min(N, B) of the results have limited = false and max(0, N - B) have
\* limited = true, whatever the interleaving, with and without the cache.
BurstDone == budget.calls = BurstCalls /\ AllIdle
C1_BurstCounts ==
    BurstDone =>
        /\ hist.allowed = Min(BurstCalls, scn.burst)
        /\ hist.limited = Max(0, BurstCalls - scn.burst)
\* all calls are back, some allowed and some denied, one denied by the cache
C1_Witness ==
    /\ BurstDone /\ accel
    /\ hist.allowed > 0 /\ hist.limited > 0
    /\ ret.via = "local"

\* C2: a call that returns limited = false has executed the script in this
\* same call, once, and returns the script's decision; a call answered by
\* the cache alone returns limited = true.
C2_AllowNeedsStore ==
    Answered =>
        /\ ~ret.r.limited =>
              ret.via = "store" /\ ret.ran = 1 /\ ~ret.script.limited
        /\ ret.via = "store" => ret.r.limited = ret.script.limited
        /\ ret.via = "local" => ret.r.limited /\ ret.ran = 0
\* an allowed call returns while the cache holds an entry for its key
C2_Witness ==
    /\ Answered /\ ~ret.r.limited /\ accel
    /\ Has(cache[ProcOf(ret.t)], ret.key)
    /\ hist.limited > 0

\* C3: whenever a call is answered limited = true by the cache alone, the
\* script, executed then on the store with the same key, limit and n, would
\* return limited = true or remaining = 0; for any calls, resets included.
C3_LocalDenialConservative ==
    (Answered /\ ret.via = "local") =>
        (ret.wouldNow.limited \/ ret.wouldNow.remaining = 0)
\* C3 as amended: when no delete of the key has run at the store since the
\* reply the cached instant was computed from, the script, executed on the
\* store with the clock value the call sampled, would return limited = true.
C3_FreshDenialConservative ==
    (Answered /\ ret.via = "local" /\ ret.fresh) => ret.would.limited
\* a denial by the cache, from an entry no delete has outdated, of a request
\* within the burst, after the clock has moved
C3_Witness ==
    /\ Answered /\ ret.via = "local" /\ ret.fresh
    /\ ret.n <= ret.limit.burst /\ now > 0

\* C4: once reset(key) has returned Ok, the next allow_n(key, limit, n) with
\* n <= burst returns limited = false, with the cache or without it, the
\* listener started or not.
AfterReset == Answered /\ ret.first /\ ret.n <= ret.limit.burst
ScriptDenied(t) ==
    th[t].pc = "connect" /\ th'[t].pc = "reply" /\ th'[t].reply.limited
DenialReturned == ret'.op = "allow_n" /\ ret'.kind = "ok" /\ ret'.r.limited
C7_MonotonicConsumption ==
    Answered =>
        /\ ret.r.limited <=> (ret.g + ret.n > scn.burst)
        /\ ret.r.remaining = IF ret.r.limited
                             THEN scn.burst - ret.g
                             ELSE scn.burst - ret.g - ret.n
\* the same, for the build without the cache
C7_WithoutCache == accel \/ C7_MonotonicConsumption
\* the same for the decision alone
C7_Decision == Answered => (ret.r.limited <=> (ret.g + ret.n > scn.burst))

\* C8: in every LimitResult, retry_after is present exactly when limited.
C8_RetryIffLimited ==
    Answered => (ret.r.retry_after.some <=> ret.r.limited)
\* after a denial, the store allows a call
C8_Witness == Answered /\ ret.via = "store" /\ ~ret.r.limited /\ hist.limited > 0

C10_FailureIsAnError ==
    [][(ret'.op = "allow_n" /\ ret'.fault \notin {"none", "ok"}) =>
            /\ ret'.kind = "err"
            /\ ret'.r = NoResult
            /\ ret'.ran <= 1
            /\ cache' = cache
            /\ lock' = lock
            /\ hist'.allowed = hist.allowed /\ hist'.limited = hist.limited]_vars
\* the reply of a script that ran cannot be decoded, in a build with the cache
C10_Witness ==
    /\ ret.op = "allow_n" /\ ret.kind = "err" /\ ret.fault = "decode_err"
    /\ accel /\ ret.ran = 1 /\ ~ret.script.limited

\* C11: reset returns an error whenever the delete or the publish fails; a
\* reset that fails at the delete publishes nothing; a reset whose delete
\* succeeded leaves the key deleted, and a failing publish changes nothing
\* in the store.
ResetReturned == ret'.op = "reset"
C11_ResetFailureIsAnError ==
    [][ResetReturned =>
          /\ ret'.fault /= "ok" <=> ret'.kind = "err"
          /\ (ret'.via = "del" /\ ret'.kind = "err") => chan' = chan
          /\ (ret'.via = "del" /\ ret'.kind = "ok") =>
                ~Has(store', ret'.key) /\ chan' = chan
          /\ ret'.via = "publish" =>
                /\ store' = store
                /\ th[ret'.t].pc = "publish"
                /\ ret'.kind = "err" /\ ret'.fault = "cmd_err" => chan' = chan
          /\ cache' = cache]_vars
\* the publish of a reset fails after its delete has removed a key that an
\* allow_n had written, while the listener is subscribed
C11_Witness ==
    /\ ret.op = "reset" /\ ret.kind = "err" /\ ret.via = "publish"
    /\ hist.dels[ret.key] > 0 /\ ~Has(store, ret.key)
    /\ Has(cache[ProcOf(ret.t)], ret.key)
    /\ \E p \in Procs : lst[p].pc = "listening"

\* C12: whenever start_event_sync ends, on a connection, subscription or
\* receive failure, it ends by returning an error value to its caller.
C12_ListenerFailureReturned ==
    ret.op = "start_event_sync" => ret.kind = "err"
\* the part of C12 about the callers: when start_event_sync ends, no lock is
\* left held by the listener and no call of allow_n or reset is changed
C12_CallsGoOn ==
    [][ret'.op = "start_event_sync" =>
          /\ th' = th /\ store' = store /\ cache' = cache
          /\ lock' = lock /\ \A p \in Procs : lock[p].writer /= {ListenerId}]_vars

\* C13: a call that sampled the clock at or after the cached instant of its
\* key, with n <= burst, is not denied by the cache: its lookup goes on to
\* the store; and when the key has been deleted there, the script, run at
\* that moment, allows it.
StaleEntryPassed(t) ==
    /\ th[t].pc = "lookup" /\ th'[t] /= th[t]
    /\ th[t].n <= th[t].limit.burst
    /\ Has(cache[ProcOf(t)], th[t].key)
    /\ cache[ProcOf(t)][th[t].key] <= th[t].now
C13_ExpiredEntrySkipped ==
    [][\A t \in Threads :
          StaleEntryPassed(t) =>
             /\ th'[t].pc = "connect"
             /\ ret' = NoRet
             /\ ~Has(store, th[t].key) =>
                   ~AllowNScript(store, th[t].key,
                                 EmissionInterval(th[t].limit),
                                 BurstOffset(th[t].limit),
                                 TatIncrement(th[t].limit, th[t].n),
                                 now).ret.limited]_vars
\* after a reset that no listener heard of, a call that sampled the clock
\* once the entry's instant, which lay in the future, was reached is on its
\* way to the store
C13_Witness ==
    \E t \in Threads :
        /\ th[t].pc = "connect" /\ th[t].n <= th[t].limit.burst
        /\ Has(cache[ProcOf(t)], th[t].key)
        /\ cache[ProcOf(t)][th[t].key] > 0
        /\ cache[ProcOf(t)][th[t].key] <= th[t].now
        /\ hist.dels[th[t].key] > 0 /\ ~Has(store, th[t].key)
        /\ lst[ProcOf(t)].pc = "off"

\* C14: one reset and one allowed allow_n on the same key, in any order and
\* overlap: once both have returned and the listener has handled the
\* broadcast, no cache entry makes a call of cost <= burst be denied by the
\* cache while the script would allow it.
RaceDone ==
    /\ budget.calls = 2 /\ budget.resets = 1 /\ hist.allowed = 1
    /\ AllIdle
    /\ \A p \in CallerProcs : chan[p] = <<>> /\ lst[p].pc = "listening"
StaleDenial(p, key, limit, n) ==
    /\ Has(cache[p], key)
    /\ LocalDenies(LocalDiff(DurationSince(cache[p][key], now),
                             TatIncrement(limit, n), BurstOffset(limit)))
    /\ ~AllowNScript(store, key, EmissionInterval(limit), BurstOffset(limit),
                     TatIncrement(limit, n), now).ret.limited
C14_RaceLeavesCacheConsistent ==
    RaceDone =>
        \A p \in CallerProcs, key \in StoreKeys, limit \in Limits, n \in Costs :
            n <= limit.burst => ~StaleDenial(p, key, limit, n)
\* the part of C14 about the store: after the race the key is in the store
\* exactly when the script ran after the delete
C14_StoreAfterRace ==
    RaceDone =>
        \A key \in StoreKeys : Has(store, key) <=> hist.granted[key] > 0

\* C15: every allowed call writes the key with a time to live of
\* ceil(reset_after) whole seconds: the key expires, not before its tat and
\* less than a second after it; and the script's decision and the tat it
\* stores are the same whether an expiry has removed the key or not.
KeptAlive(st, t) == [k \in DOMAIN st |-> [st[k] EXCEPT !.exp = t + 1]]
SameDecision(st, key, limit, n, t) ==
    LET a == AllowNScript(st, key, EmissionInterval(limit), BurstOffset(limit),
                          TatIncrement(limit, n), t)
        b == AllowNScript(KeptAlive(st, t), key, EmissionInterval(limit),
                          BurstOffset(limit), TatIncrement(limit, n), t)
    IN  /\ a.ret.limited = b.ret.limited
        /\ ~a.ret.limited => a.store[key].tat = b.store[key].tat
KeyWritten(key) ==
    /\ Has(store', key)
    /\ ~Has(store, key) \/ store'[key] /= store[key]
C15_KeyLifecycle ==
    [][\A key \in DOMAIN store' :
          /\ store'[key].exp >= store'[key].tat
          /\ \A limit \in Limits, n \in Costs :
                SameDecision(store', key, limit, n, now')
          /\ KeyWritten(key) =>
                /\ store'[key].exp > now
                /\ store'[key].exp - store'[key].tat < TicksPerSec
                /\ (store'[key].exp - now) % TicksPerSec = 0]_vars
\* a call is about to run the script on a key that has expired, its expiry
\* having been rounded up past its tat
C15_Witness ==
    \E t \in Threads :
        /\ th[t].pc = "connect" /\ Has(store, th[t].key)
        /\ store[th[t].key].exp <= now
        /\ store[th[t].key].tat < store[th[t].key].exp

\* C16: a call that finds the cache lock taken at its read step goes to the
\* store without touching the lock; a call that finds it taken at its write
\* step returns the script's decision and leaves the cache as it was; and no
\* call ever waits: whatever the lock's state, a call in progress can take
\* its next step, and the lock is only held by a thread inside the cache
\* block it is about to leave.
ReadSkipped(t) ==
    /\ th[t].pc = "idle" /\ th'[t].pc \in {"lookup", "connect"}
    /\ accel /\ ~CanRead(lock[ProcOf(t)])
WriteSkipped(t) ==
    /\ th[t].pc = "reply" /\ th'[t] /= th[t]
    /\ accel /\ ~CanWrite(lock[ProcOf(t)])
CanStep(t) ==
    /\ th[t].pc = "lookup" => ENABLED CacheLookup(t)
    /\ th[t].pc = "connect" => ENABLED Invoke(t, "ok")
    /\ th[t].pc = "reply" => ENABLED Receive(t, "ok")
    /\ th[t].pc = "insert" => ENABLED CacheInsert(t)
LockHeldInside(p) ==
    /\ \A t \in lock[p].readers : ProcOf(t) = p /\ th[t].pc = "lookup"
    /\ \A t \in lock[p].writer :
          IF t = ListenerId THEN lst[p].pc = "evict"
          ELSE ProcOf(t) = p /\ th[t].pc = "insert"
C16_LockNeverBlocks ==
    [][/\ \A t \in Threads :
            /\ ReadSkipped(t) => th'[t].pc = "connect" /\ lock' = lock
            /\ WriteSkipped(t) =>
                  /\ th'[t].pc = "idle" /\ cache' = cache /\ lock' = lock
                  /\ ret'.kind = "ok" /\ ret'.via = "store" /\ ret'.t = t
                  /\ ret'.ran = 1
                  /\ ret'.r.limited = th[t].reply.limited
            /\ CanStep(t)
       /\ \A p \in Procs : LockHeldInside(p)]_vars
\* a call returns the store's decision after finding the lock held by the
\* listener, which is evicting
C16_Witness ==
    /\ Answered /\ ret.via = "store" /\ ~Has(cache[ProcOf(ret.t)], ret.key)
    /\ lock[ProcOf(ret.t)].writer = {ListenerId}
    /\ \E t \in Threads : th[t].pc = "connect" /\ ProcOf(t) = ProcOf(ret.t)

\* C17: once the listener has handled a message that starts with "reset:",
\* the cache holds no entry for the key the message names, whatever the
\* allow_n calls of the process are doing.
HandledReset(p) ==
    /\ lst[p].pc = "listening" /\ chan[p] /= <<>>
    /\ chan'[p] = Tail(chan[p]) /\ lst'[p].pc = "listening"
    /\ StartsWith(Head(chan[p]), LIMITER_RESET_EVENT_PREFIX)
Evicted(p) == lst[p].pc = "evict" /\ lst'[p].pc = "listening"
C17_OtherEntriesKept ==
    [][\A p \in Procs :
          /\ Evicted(p) => cache' = [cache EXCEPT ![p] = Del(@, lst[p].payload)]
          /\ (lst[p].pc = "listening" /\ lst' /= lst) => cache' = cache
          /\ ( /\ lst[p].pc = "listening" /\ chan[p] /= <<>>
               /\ chan'[p] = Tail(chan[p])
               /\ ~StartsWith(Head(chan[p]), LIMITER_RESET_EVENT_PREFIX) )
                => cache' = cache /\ lock' = lock]_vars

\* C18: an allow_n or a reset made through one limiter leaves alone the
\* store state and the cache entry of every key of a limiter with another
\* prefix.
Entry(m, key) == IF Has(m, key) THEN Some(m[key]) ELSE None
Acting(t) == IF th[t].pc = "idle" THEN th'[t] ELSE th[t]
StepOf(t) == th'[t] /= th[t]
C18_PrefixesIsolate ==
    [][\A t \in Threads :
          StepOf(t) =>
            \A l \in PrefixedLimiters \ {Acting(t).limiter}, k \in PrefixedKeys :
                /\ Entry(store', FormatKey(l, k)) = Entry(store, FormatKey(l, k))
                /\ Entry(cache'[ProcOf(t)], FormatKey(l, k))
                       = Entry(cache[ProcOf(t)], FormatKey(l, k))]_vars
\* what the code does keep apart: a call or reset changes the store and the
\* cache at its own effective key only
C18_EffectiveKeysIsolate ==
    [][\A t \in Threads :
          StepOf(t) =>
            \A key \in StoreKeys \ {Acting(t).key}, p \in Procs :
                /\ Entry(store', key) = Entry(store, key)
                /\ Entry(cache'[p], key) = Entry(cache[p], key)]_vars

\* C19: for a key used with the one Limit scn by every thread of every
\* process, the stored tat is at most the time of the last allowed call plus
\* burst * emission_interval, and since the last reset the permits granted
\* in any window of time [s, e] number at most burst + (e - s) /
\* emission_interval.
RECURSIVE GrantedIn(_, _, _)
GrantedIn(g, s, e) ==
    IF g = <<>> THEN 0
    ELSE (IF Head(g).at >= s /\ Head(g).at <= e THEN Head(g).n ELSE 0)
             + GrantedIn(Tail(g), s, e)
LastGrant(g) == g[Len(g)]
C19_CapacityBound ==
    \A key \in StoreKeys :
        LET g == hist.grants[key]
            ei == EmissionInterval(scn)
        IN  /\ Has(store, key) => g /= <<>>
            /\ Has(store, key) =>
                    store[key].tat <= LastGrant(g).at + scn.burst * ei
            /\ \A s \in 0..now, e \in 0..now :
                    s <= e => GrantedIn(g, s, e) * ei <= scn.burst * ei + (e - s)
C19_Witness ==
    \E key \in StoreKeys :
        LET g == hist.grants[key]
            ei == EmissionInterval(scn)
        IN  /\ Len(g) >= 2 /\ now > 0 /\ hist.dels[key] > 0
            /\ \E i \in 1..Len(g) : g[i].n > 1
            /\ LastGrant(g).at > g[1].at
            /\ GrantedIn(g, g[1].at, now) * ei = scn.burst * ei + (now - g[1].at)
            /\ store[key].tat = LastGrant(g).at + scn.burst * ei

\* C20: a cache entry is never ahead of the store while no delete of its key
\* has happened since it was written: right after an allow_n has written
\* the entry, its instant is at most the tat the store holds for the key, or
\* not in the future when the store holds no live key.
BehindStore(instant, st, key, t) ==
    IF StoreGet(st, key, t) /= <<>> THEN instant <= st[key].tat
    ELSE instant <= t
Inserted(t) == th[t].pc = "insert" /\ th'[t].pc = "idle"
C20_WatermarkBehindStore ==
    [][\A t \in Threads :
          Inserted(t) =>
            BehindStore(cache'[ProcOf(t)][th[t].key], store', th[t].key, now')]_vars
\* what holds of the watermark: an entry computed from a script run that no
\* delete of the key has followed is never ahead of the store, however the
\* calls of the process interleave
C20_FreshWatermarkBehindStore ==
    \A p \in Procs, key \in StoreKeys :
        (Has(cache[p], key) /\ hist.cacheEp[p][key] = hist.dels[key]) =>
            BehindStore(cache[p][key], store, key, now)

====
